---------------------------- MODULE Spec2Model ----------------------------
(***************************************************************************)
(* Challenge participation and real-time notification dispatch of the      *)
(* StakeFit backend (src/Backend/config/db.js, lines 94-248).              *)
(*                                                                         *)
(* One Node.js process serves every request.  A handler runs without       *)
(* interruption between two awaits; at an await other handlers and the     *)
(* socket callbacks may run.  Each action below is one such uninterrupted  *)
(* piece together with the database operation it waits for.                *)
(*                                                                         *)
(* Documents are Mongoose documents: save() of a fetched document sends    *)
(* only the changes made to it.  participants.push(..) is sent as an       *)
(* atomic $push together with $inc of the version key __v; an assignment   *)
(* to a field of participants[i] is sent as $set of that one path under    *)
(* the condition that __v is still the version that was read, and fails    *)
(* with a VersionError otherwise.                                          *)
(***************************************************************************)
EXTENDS Integers, Sequences, FiniteSets, TLC

VARIABLES
    challenges,     \* CommunityChallenge collection: challenges[i] has _id i
    notifications,  \* Notification collection: notifications[i] has _id i
    userSockets,    \* session registry: userId -> socket id (registered users only)
    sockets,        \* every socket opened so far: sockets[h] has socket id h
    emitted,        \* the io.to(socketId).emit(..) calls made so far, in order
    req,            \* the handlers in flight, and the last answer of a finished one
    clock,          \* what new Date() returns
    received        \* how many join, accept and complete requests have been received

vars == <<challenges, notifications, userSockets, sockets, emitted, req, clock, received>>

(***************************************************************************)
(* Bounds of the model.                                                    *)
(***************************************************************************)
MaxInFlight == 2

MaxReqs == 4

\* The join, accept and complete requests received where the clock stands still.
MaxLifecycleReqs == 3

MaxChallenges == 1

MaxSockets == 2

MaxClock == 1

(***************************************************************************)
(* The inputs.                                                             *)
(***************************************************************************)
Users == {"u1", "u2"}

Names == {"run"}

\* The Community collection is static here: cm1 and cm2 exist, cm9 does not.
CommunityIds == {"cm1", "cm2"}

Members(communityId) ==
    IF communityId = "cm1" THEN << [userId |-> "u1"], [userId |-> "u2"] >>
    ELSE << [userId |-> "u2"] >>

CreateBodies ==
    [communityId : CommunityIds \cup {"cm9"},
     name        : Names,
     description : {"daily"},
     exercises   : {<< "pushups" >>},
     stake       : {[amount |-> 10]}]

NoBody == [communityId |-> "", name |-> "", description |-> "",
           exercises |-> << >>, stake |-> [amount |-> 0]]

(***************************************************************************)
(* Helpers on sequences.                                                   *)
(***************************************************************************)
RECURSIVE Concat(_)
Concat(ss) == IF ss = << >> THEN << >> ELSE Head(ss) \o Concat(Tail(ss))


(***************************************************************************)
(* The session registry.  db.js only holds a reference to it (userSockets, *)
(* lines 102-111); the socket callbacks that write it are not in this part *)
(* of the repository and follow the documented contract: register          *)
(* overwrites, unregister removes only the handle being torn down.         *)
(***************************************************************************)
Register(reg, userId, socketId) ==
    [x \in DOMAIN reg \cup {userId} |-> IF x = userId THEN socketId ELSE reg[x]]

UnregisterAlways(reg, userId, socketId) ==
    [x \in DOMAIN reg \ {userId} |-> reg[x]]

Unregister(reg, userId, socketId) ==
    IF userId \in DOMAIN reg /\ reg[userId] = socketId
    THEN [x \in DOMAIN reg \ {userId} |-> reg[x]]
    ELSE reg

(***************************************************************************)
(* create: the documents it builds (lines 117-159).                        *)
(***************************************************************************)
\* new communityChallenge({...; participants: []}), lines 120-127; Mongoose
\* gives the document its _id when it is constructed.
NewChallenge(body, id) ==
    [_id          |-> id,
     communityId  |-> body.communityId,
     name         |-> body.name,
     description  |-> body.description,
     exercises    |-> body.exercises,
     stake        |-> body.stake,
     participants |-> << >>,
     v            |-> 0]

\* community.members.map(member => member.userId), line 139
MemberIds(community) == [i \in 1..Len(community) |-> community[i].userId]

\* A faulty variant of NotificationFor: the stake amount is left out of the payload.
NotificationForNoStake(userId, body, challengeId, now) ==
    [_id         |-> 0,
     userId      |-> userId,
     type        |-> "challenge_invite",
     title       |-> << "New Challenge: ", body.name >>,
     description |-> << "You've been invited to join \"", body.name, "\" challenge" >>,
     data        |-> [challengeId          |-> challengeId,
                      communityId          |-> body.communityId,
                      stakeAmount          |-> 0,
                      challengeName        |-> body.name,
                      challengeDescription |-> body.description],
     read        |-> FALSE,
     createdAt   |-> now]

\* The object built for one member, lines 144-158.  _id 0 stands for "not
\* saved yet": insertMany assigns the real one.
NotificationFor(userId, body, challengeId, now) ==
    [_id         |-> 0,
     userId      |-> userId,
     type        |-> "challenge_invite",
     title       |-> << "New Challenge: ", body.name >>,
     description |-> << "You've been invited to join \"", body.name, "\" challenge" >>,
     data        |-> [challengeId          |-> challengeId,
                      communityId          |-> body.communityId,
                      stakeAmount          |-> body.stake.amount,
                      challengeName        |-> body.name,
                      challengeDescription |-> body.description],
     read        |-> FALSE,
     createdAt   |-> now]

\* memberIds.map(userId => {...}), lines 143-159
BuildNotifications(memberIds, body, challengeId, now) ==
    [i \in 1..Len(memberIds) |-> NotificationFor(memberIds[i], body, challengeId, now)]

(***************************************************************************)
(* Notification.insertMany (line 162): the first k documents are written,  *)
(* each with the next free _id.  k = Len(docs) when the insert succeeds;   *)
(* an ordered insert that fails has written the documents before the       *)
(* failing one.                                                            *)
(***************************************************************************)
WithIds(docs, k, base) == [i \in 1..k |-> [docs[i] EXCEPT !._id = base + i]]

\* A faulty variant of InsertMany: nothing reaches the collection.
InsertManyNothing(coll, docs, k) == coll

InsertMany(coll, docs, k) == coll \o WithIds(docs, k, Len(coll))

(***************************************************************************)
(* The live push, lines 165-172.                                           *)
(***************************************************************************)
\* A faulty variant of SocketIdOf: the socket of some registered user, whoever the
\* notification is for.
SocketIdOfAnyone(reg, notification) ==
    IF DOMAIN reg = {} THEN << >>
    ELSE << reg[CHOOSE u \in DOMAIN reg : \A w \in DOMAIN reg : reg[u] <= reg[w]] >>

\* userSockets[notification.userId.toString()], line 167: << >> is undefined
SocketIdOf(reg, notification) ==
    IF notification.userId \in DOMAIN reg THEN << reg[notification.userId] >> ELSE << >>

\* A faulty variant of Emit: the object built before the insert is sent, which
\* has no _id of the collection.
EmitUnsaved(socketId, notification) ==
    [to |-> socketId, event |-> "new_notification",
     payload |-> [notification EXCEPT !._id = 0]]

\* io.to(socketId).emit('new_notification', notification), line 169
Emit(socketId, notification) ==
    [to |-> socketId, event |-> "new_notification", payload |-> notification]

\* savedNotifications.forEach(...), lines 166-171
Dispatch(saved, reg) ==
    Concat([i \in 1..Len(saved) |->
              LET socketId == SocketIdOf(reg, saved[i])
              IN  IF socketId # << >> THEN << Emit(socketId[1], saved[i]) >> ELSE << >>])


(***************************************************************************)
(* join, accept, complete: the participant roster (lines 192-246).         *)
(***************************************************************************)
\* The sub-document Mongoose builds for participants.push({ userId }): the
\* flags take the defaults of the participant schema.
NewParticipant(userId) ==
    [userId         |-> userId,
     accepted       |-> FALSE,
     stakeSubmitted |-> FALSE,
     completed      |-> FALSE,
     completedAt    |-> << >>]

\* A faulty variant of FindParticipant: the first entry, whoever it belongs to.
FindParticipantFirst(doc, userId) ==
    IF doc.participants = << >> THEN 0 ELSE 1

\* challenge.participants.find(p => p.userId.toString() === userId), lines
\* 198, 215, 234: the index of the first entry of the user, 0 for undefined.
FindParticipant(doc, userId) ==
    IF \E i \in 1..Len(doc.participants) : doc.participants[i].userId = userId
    THEN CHOOSE i \in 1..Len(doc.participants) :
             /\ doc.participants[i].userId = userId
             /\ \A j \in 1..(i - 1) : doc.participants[j].userId # userId
    ELSE 0

\* A faulty variant of AlreadyParticipant: the test of line 199 never fires.
AlreadyParticipantNever(doc, userId) == FALSE

\* alreadyParticipant, lines 198-199
AlreadyParticipant(doc, userId) == FindParticipant(doc, userId) # 0

\* A faulty variant of SaveJoin: the whole roster of the handler's copy is written.
SaveJoinOverwrite(stored, doc, userId) ==
    [stored EXCEPT !.participants = Append(doc.participants, NewParticipant(userId)),
                   !.v = @ + 1]

\* challenge.save() after the push, line 202: $push of the new entry onto
\* the stored roster and $inc of __v; the version read is not tested.
SaveJoin(stored, doc, userId) ==
    [stored EXCEPT !.participants = Append(@, NewParticipant(userId)),
                   !.v = @ + 1]

\* The handler's copy after lines 219-220
LocalAccept(doc, userId) ==
    LET i == FindParticipant(doc, userId)
    IN  [doc EXCEPT !.participants[i].accepted = TRUE,
                    !.participants[i].stakeSubmitted = TRUE]

\* The handler's copy after lines 238-239
LocalComplete(doc, userId, now) ==
    LET i == FindParticipant(doc, userId)
    IN  [doc EXCEPT !.participants[i].completed = TRUE,
                    !.participants[i].completedAt = << now >>]

\* The paths of participants[i] that differ between the document as read
\* and the handler's copy: what save() sends as $set.
ModifiedPaths(doc, local, i) ==
    {f \in {"accepted", "stakeSubmitted", "completed", "completedAt"} :
        doc.participants[i][f] # local.participants[i][f]}

\* A faulty variant of SaveSet: the roster of the handler's copy replaces
\* the stored one, whatever version was read.
SaveSetWholeRoster(stored, doc, local, i) ==
    IF ModifiedPaths(doc, local, i) = {} THEN [ok |-> TRUE, doc |-> stored]
    ELSE [ok |-> TRUE, doc |-> [stored EXCEPT !.participants = local.participants]]

\* challenge.save() of lines 221 and 240.  Nothing modified: nothing is
\* sent.  Otherwise $set of the modified paths of participants[i], on the
\* stored document whose __v is the one read; no such document is a
\* VersionError.
SaveSet(stored, doc, local, i) ==
    LET paths == ModifiedPaths(doc, local, i)
    IN  IF paths = {} THEN [ok |-> TRUE, doc |-> stored]
        ELSE IF stored.v # doc.v THEN [ok |-> FALSE, doc |-> stored]
        ELSE [ok  |-> TRUE,
              doc |-> [stored EXCEPT !.participants[i] =
                         [f \in DOMAIN @ |->
                            IF f \in paths THEN local.participants[i][f] ELSE @[f]]]]

\* CommunityChallenge.findById, lines 195, 214, 233: << >> is null
FindById(coll, id) == IF id \in 1..Len(coll) THEN << coll[id] >> ELSE << >>

\* A request as it starts.
NewReq(op, challengeId, userId, body) ==
    [op |-> op, pc |-> "start", status |-> 0, challengeId |-> challengeId,
     userId |-> userId, body |-> body, doc |-> << >>, batch |-> << >>,
     readV |-> 0]

\* At most MaxInFlight handlers are in flight.  A new request takes the
\* first slot that is idle or holds a finished request.
IdleReq == [NewReq("", 0, "", NoBody) EXCEPT !.pc = "idle"]

IsFree(r) == req[r].pc \in {"idle", "done"}

HasFreeSlot == \E r \in 1..MaxInFlight : IsFree(r)

FreeSlot == CHOOSE r \in 1..MaxInFlight : IsFree(r) /\ \A q \in 1..(r - 1) : ~IsFree(q)

Started(request) == [req EXCEPT ![FreeSlot] = request]

\* A handler that has answered keeps the request, the status of its answer
\* and the __v of the document it had read; its other locals are gone.
Finish(r, status) ==
    [req EXCEPT ![r].pc = "done", ![r].status = status,
                ![r].doc = << >>, ![r].batch = << >>]

(***************************************************************************)
(* The state after the server has started: empty collections, nobody       *)
(* connected, and initializeRouter (lines 107-111) has handed io and the   *)
(* registry to the router, so the test of line 165 passes.                 *)
(***************************************************************************)
Init ==
    /\ challenges = << >>
    /\ notifications = << >>
    /\ userSockets = << >>
    /\ sockets = << >>
    /\ emitted = << >>
    /\ req = [r \in 1..MaxInFlight |-> IdleReq]
    /\ clock = 0
    /\ received = 0

(***************************************************************************)
(* Socket callbacks and the clock.                                         *)
(***************************************************************************)
Connect(userId) ==
    /\ Len(sockets) < MaxSockets
    /\ sockets' = Append(sockets, [userId |-> userId, open |-> TRUE, closedAt |-> 0])
    /\ userSockets' = Register(userSockets, userId, Len(sockets) + 1)
    /\ UNCHANGED <<challenges, notifications, emitted, req, clock, received>>

Disconnect(socketId) ==
    /\ sockets[socketId].open
    /\ sockets' = [sockets EXCEPT ![socketId].open = FALSE,
                                  ![socketId].closedAt = Len(sockets)]
    /\ userSockets' = Unregister(userSockets, sockets[socketId].userId, socketId)
    /\ UNCHANGED <<challenges, notifications, emitted, req, clock, received>>

Tick ==
    /\ clock < MaxClock
    /\ clock' = clock + 1
    /\ UNCHANGED <<challenges, notifications, userSockets, sockets, emitted, req, received>>


(***************************************************************************)
(* POST /create, lines 114-179.  dbOk = FALSE is a database write that     *)
(* rejects: the catch of the handler answers 500.  A rejected read answers *)
(* 500 as well and changes nothing; reads are taken to succeed.            *)
(***************************************************************************)
\* lines 117-129: the challenge is built and saved
CreateSave(body, dbOk) ==
    /\ HasFreeSlot
    /\ Len(challenges) < MaxChallenges
    /\ LET challenge == NewChallenge(body, Len(challenges) + 1)
           r == NewReq("create", challenge._id, "", body)
       IN  IF dbOk
           THEN /\ challenges' = Append(challenges, challenge)
                /\ req' = Started([r EXCEPT !.pc = "findCommunity",
                                                !.doc = << challenge >>])
           ELSE /\ challenges' = challenges
                /\ req' = Started([r EXCEPT !.pc = "done", !.status = 500])
    /\ UNCHANGED <<notifications, userSockets, sockets, emitted, clock, received>>

\* A faulty variant of CreateFindCommunity: without the test of line 134 a
\* community that does not resolve is taken to have no members.
CreateFindCommunityNoTest(r) ==
    /\ req[r].op = "create" /\ req[r].pc = "findCommunity"
    /\ req' =
         [req EXCEPT ![r].pc = "insertMany",
                     ![r].batch = IF req[r].body.communityId \notin CommunityIds
                                  THEN << >>
                                  ELSE BuildNotifications(
                                           MemberIds(Members(req[r].body.communityId)),
                                           req[r].body, req[r].doc[1]._id, clock)]
    /\ UNCHANGED <<challenges, notifications, userSockets, sockets, emitted, clock, received>>

\* lines 132-159: the community is read, the notifications are built
CreateFindCommunity(r) ==
    /\ req[r].op = "create" /\ req[r].pc = "findCommunity"
    /\ req' =
         IF req[r].body.communityId \notin CommunityIds THEN Finish(r, 404)
         ELSE [req EXCEPT ![r].pc = "insertMany",
                          ![r].batch = BuildNotifications(
                                           MemberIds(Members(req[r].body.communityId)),
                                           req[r].body, req[r].doc[1]._id, clock)]
    /\ UNCHANGED <<challenges, notifications, userSockets, sockets, emitted, clock, received>>

\* A faulty variant of CreateInsertMany: after a rejected insert the handler
\* goes on and pushes the notifications that were written.
CreateInsertManyLenient(r, k) ==
    /\ req[r].op = "create" /\ req[r].pc = "insertMany"
    /\ k \in 0..Len(req[r].batch)
    /\ notifications' = InsertMany(notifications, req[r].batch, k)
    /\ req' = [req EXCEPT ![r].pc = "dispatch",
                          ![r].batch = WithIds(req[r].batch, k, Len(notifications))]
    /\ UNCHANGED <<challenges, userSockets, sockets, emitted, clock, received>>

\* line 162: the first k notifications are written; fewer than all of them
\* is a rejected insert
CreateInsertMany(r, k) ==
    /\ req[r].op = "create" /\ req[r].pc = "insertMany"
    /\ k \in 0..Len(req[r].batch)
    /\ notifications' = InsertMany(notifications, req[r].batch, k)
    /\ req' =
         IF k = Len(req[r].batch)
         THEN [req EXCEPT ![r].pc = "dispatch",
                          ![r].batch = WithIds(req[r].batch, k, Len(notifications))]
         ELSE Finish(r, 500)
    /\ UNCHANGED <<challenges, userSockets, sockets, emitted, clock, received>>

\* lines 165-174: the live pushes, then the answer
CreateDispatch(r) ==
    /\ req[r].op = "create" /\ req[r].pc = "dispatch"
    /\ emitted' = emitted \o Dispatch(req[r].batch, userSockets)
    /\ req' = Finish(r, 200)
    /\ UNCHANGED <<challenges, notifications, userSockets, sockets, clock, received>>

(***************************************************************************)
(* POST /join/:challengeId, lines 192-208.                                 *)
(***************************************************************************)
\* lines 193-201.  What follows findById (lines 196-201) reads nothing but
\* the document it returned, so it is taken with the read.
JoinFind(challengeId, userId) ==
    /\ HasFreeSlot
    /\ received < MaxReqs
    /\ LET r == NewReq("join", challengeId, userId, NoBody)
           found == FindById(challenges, challengeId)
       IN  req' = Started(
             IF found = << >> THEN [r EXCEPT !.pc = "done", !.status = 404]
             ELSE IF AlreadyParticipant(found[1], userId)
                  THEN [r EXCEPT !.pc = "done", !.status = 400]
             ELSE [r EXCEPT !.pc = "save", !.doc = found, !.readV = found[1].v])
    /\ received' = received + 1
    /\ UNCHANGED <<challenges, notifications, userSockets, sockets, emitted, clock>>

\* lines 202-204
JoinSave(r, dbOk) ==
    /\ req[r].op = "join" /\ req[r].pc = "save"
    /\ LET id == req[r].challengeId
       IN  IF dbOk
           THEN /\ challenges' = [challenges EXCEPT ![id] =
                                    SaveJoin(challenges[id], req[r].doc[1], req[r].userId)]
                /\ req' = Finish(r, 200)
           ELSE /\ challenges' = challenges
                /\ req' = Finish(r, 500)
    /\ UNCHANGED <<notifications, userSockets, sockets, emitted, clock, received>>

(***************************************************************************)
(* POST /accept/:challengeId and POST /complete/:challengeId, lines        *)
(* 211-246.  Neither tests the document findById returns: on null, reading *)
(* challenge.participants throws and the catch answers 500.  The handler   *)
(* waits for findById; what follows runs when the document has arrived,    *)
(* and other handlers and the clock may have moved on in between.          *)
(***************************************************************************)
\* lines 212-214 and 231-233: the document, or null, as findById is served
UpdateFind(op, challengeId, userId) ==
    /\ HasFreeSlot
    /\ received < MaxReqs
    /\ LET r == NewReq(op, challengeId, userId, NoBody)
           found == FindById(challenges, challengeId)
       IN  req' = Started(
             [r EXCEPT !.pc = "found", !.doc = found,
                       !.readV = IF found = << >> THEN 0 ELSE found[1].v])
    /\ received' = received + 1
    /\ UNCHANGED <<challenges, notifications, userSockets, sockets, emitted, clock>>

AcceptFind(challengeId, userId) == UpdateFind("accept", challengeId, userId)

CompleteFind(challengeId, userId) == UpdateFind("complete", challengeId, userId)

\* lines 215-220 and 234-239: the continuation of findById.  The flags are
\* assigned on the handler's copy (LocalAccept, LocalComplete, applied where
\* the copy is saved); complete takes new Date() here.
UpdateContinue(r) ==
    /\ req[r].op \in {"accept", "complete"} /\ req[r].pc = "found"
    /\ req' = IF req[r].doc = << >> THEN Finish(r, 500)
              ELSE IF FindParticipant(req[r].doc[1], req[r].userId) = 0
                   THEN Finish(r, 404)
              ELSE [req EXCEPT ![r].pc = "save",
                               ![r].batch = IF req[r].op = "complete"
                                            THEN << clock >> ELSE << >>]
    /\ UNCHANGED <<challenges, notifications, userSockets, sockets, emitted, clock, received>>

\* lines 221-223 and 240-242
UpdateSave(r, dbOk) ==
    /\ req[r].op \in {"accept", "complete"} /\ req[r].pc = "save"
    /\ LET id == req[r].challengeId
           doc == req[r].doc[1]
           local == IF req[r].op = "accept"
                    THEN LocalAccept(doc, req[r].userId)
                    ELSE LocalComplete(doc, req[r].userId, req[r].batch[1])
           saved == SaveSet(challenges[id], doc, local, FindParticipant(doc, req[r].userId))
       IN  IF dbOk /\ saved.ok
           THEN /\ challenges' = [challenges EXCEPT ![id] = saved.doc]
                /\ req' = Finish(r, 200)
           ELSE /\ challenges' = challenges
                /\ req' = Finish(r, 500)
    /\ UNCHANGED <<notifications, userSockets, sockets, emitted, clock, received>>

(***************************************************************************)
(* The specifications.                                                     *)
(***************************************************************************)
Requests == 1..MaxInFlight

\* Ids a caller may name: those of the stored challenges and one that does
\* not resolve.
ChallengeIds == 1..(Len(challenges) + 1)

Next ==
    \/ \E u \in Users : Connect(u)
    \/ \E h \in 1..Len(sockets) : Disconnect(h)
    \/ Tick
    \/ \E body \in CreateBodies, dbOk \in BOOLEAN : CreateSave(body, dbOk)
    \/ \E r \in Requests : CreateFindCommunity(r)
    \/ \E r \in Requests, k \in 0..Cardinality(Users) : CreateInsertMany(r, k)
    \/ \E r \in Requests : CreateDispatch(r)
    \/ \E c \in ChallengeIds, u \in Users : JoinFind(c, u)
    \/ \E r \in Requests, dbOk \in BOOLEAN : JoinSave(r, dbOk)
    \/ \E c \in ChallengeIds, u \in Users : AcceptFind(c, u)
    \/ \E c \in ChallengeIds, u \in Users : CompleteFind(c, u)
    \/ \E r \in Requests : UpdateContinue(r)
    \/ \E r \in Requests, dbOk \in BOOLEAN : UpdateSave(r, dbOk)

Spec == Init /\ [][Next]_vars


\* The notification side alone: connections, the clock and create.
NextDispatch ==
    \/ \E u \in Users : Connect(u)
    \/ \E h \in 1..Len(sockets) : Disconnect(h)
    \/ Tick
    \/ \E body \in CreateBodies, dbOk \in BOOLEAN : CreateSave(body, dbOk)
    \/ \E r \in Requests : CreateFindCommunity(r)
    \/ \E r \in Requests, k \in 0..Cardinality(Users) : CreateInsertMany(r, k)
    \/ \E r \in Requests : CreateDispatch(r)

SpecDispatch == Init /\ [][NextDispatch]_vars

\* The roster side alone.  The notifications of a create do not touch a
\* roster: here every create names a community that does not resolve, and
\* ends at line 135 with its challenge saved: a create whose save is
\* rejected leaves no challenge to join.  Nobody connects.
LifecycleBodies == {b \in CreateBodies : b.communityId = "cm9"}

NextLifecycle ==
    \/ \E body \in LifecycleBodies, dbOk \in {TRUE} : CreateSave(body, dbOk)
    \/ \E r \in Requests : CreateFindCommunity(r)
    \/ \E c \in ChallengeIds, u \in Users :
          received < MaxLifecycleReqs /\ JoinFind(c, u)
    \/ \E r \in Requests, dbOk \in BOOLEAN : JoinSave(r, dbOk)
    \/ \E c \in ChallengeIds, u \in Users :
          received < MaxLifecycleReqs /\ AcceptFind(c, u)
    \/ \E c \in ChallengeIds, u \in Users :
          received < MaxLifecycleReqs /\ CompleteFind(c, u)
    \/ \E r \in Requests : UpdateContinue(r)
    \/ \E r \in Requests, dbOk \in BOOLEAN : UpdateSave(r, dbOk)

SpecLifecycle == Init /\ [][NextLifecycle]_vars

\* The roster side with the clock running, for what complete writes into
\* completedAt.  No database write is rejected here, a VersionError apart.
NextTimed ==
    \/ Tick
    \/ \E body \in LifecycleBodies, dbOk \in {TRUE} : CreateSave(body, dbOk)
    \/ \E r \in Requests : CreateFindCommunity(r)
    \/ \E c \in ChallengeIds, u \in Users : JoinFind(c, u)
    \/ \E r \in Requests, dbOk \in {TRUE} : JoinSave(r, dbOk)
    \/ \E c \in ChallengeIds, u \in Users : AcceptFind(c, u)
    \/ \E c \in ChallengeIds, u \in Users : CompleteFind(c, u)
    \/ \E r \in Requests : UpdateContinue(r)
    \/ \E r \in Requests, dbOk \in {TRUE} : UpdateSave(r, dbOk)

SpecTimed == Init /\ [][NextTimed]_vars


(***************************************************************************)
(* The roster: claims C1, C2, C7, C8, C9.                                  *)
(***************************************************************************)
HasEntry(doc, userId) ==
    \E i \in 1..Len(doc.participants) : doc.participants[i].userId = userId

Resolves(challengeId) == challengeId \in 1..Len(challenges)

\* The step in which slot r receives a request of kind op.
Starts(r, op) ==
    /\ received' = received + 1
    /\ r = FreeSlot
    /\ req'[r].op = op

Answered(r, op, status) ==
    req[r].op = op /\ req[r].pc = "done" /\ req[r].status = status

\* C1: in every reachable state, each challenge's roster has at most one
\* entry per user, whatever the interleaving of join requests.
C1_OneEntryPerUser ==
    \A c \in 1..Len(challenges) :
        \A i, j \in 1..Len(challenges[c].participants) :
            challenges[c].participants[i].userId = challenges[c].participants[j].userId
                => i = j

\* C2: a join that was answered 200 has its user in the stored roster; in
\* particular two joins of distinct users that both read the challenge
\* before either saved are both there once both have answered.
C2_NoJoinLost ==
    \A r \in Requests :
        Answered(r, "join", 200) => HasEntry(challenges[req[r].challengeId], req[r].userId)

\* Two joins of distinct users on one challenge, both answered 200, that had
\* read the same version of the document: both read before either saved.
C2_Witness ==
    \E r1, r2 \in Requests :
        /\ Answered(r1, "join", 200) /\ Answered(r2, "join", 200)
        /\ req[r1].challengeId = req[r2].challengeId
        /\ req[r1].userId # req[r2].userId
        /\ req[r1].readV = req[r2].readV
        /\ HasEntry(challenges[req[r1].challengeId], req[r1].userId)
        /\ HasEntry(challenges[req[r1].challengeId], req[r2].userId)

\* C7: a join for a user who already has an entry in the roster of the
\* challenge is answered 400 at once and leaves every roster as it was.
C7_DuplicateJoinRejected ==
    [][\A r \in Requests :
          (/\ Starts(r, "join")
           /\ Resolves(req'[r].challengeId)
           /\ HasEntry(challenges[req'[r].challengeId], req'[r].userId))
          => (/\ req'[r].pc = "done"
              /\ req'[r].status = 400
              /\ challenges' = challenges)]_vars

C7_Witness ==
    \E r \in Requests :
        /\ Answered(r, "join", 400)
        /\ Cardinality({i \in 1..Len(challenges[req[r].challengeId].participants) :
              challenges[req[r].challengeId].participants[i].userId = req[r].userId}) = 1

\* The step in which the accept or complete of slot r runs on with what
\* findById returned.
Continues(r) ==
    /\ req[r].op \in {"accept", "complete"} /\ req[r].pc = "found"
    /\ req'[r].pc # "found"

\* C8: an accept or complete whose findById returned an existing challenge
\* with no entry of the user in its roster is answered 404 when it runs on,
\* and no step of it changes a challenge.  A user without an entry in the
\* stored roster has none in the copy that was read.
C8_NonParticipantRejected ==
    [][\A r \in Requests :
          /\ (Starts(r, "accept") \/ Starts(r, "complete"))
                => challenges' = challenges
          /\ (/\ Continues(r)
              /\ req[r].doc # << >>
              /\ \/ ~HasEntry(req[r].doc[1], req[r].userId)
                 \/ ~HasEntry(challenges[req[r].challengeId], req[r].userId))
                => (/\ req'[r].pc = "done"
                    /\ req'[r].status = 404
                    /\ challenges' = challenges)]_vars

\* Both were refused for a user who is not in a roster that has somebody else.
C8_Witness ==
    \E r1, r2 \in Requests :
        /\ Answered(r1, "accept", 404) /\ Answered(r2, "complete", 404)
        /\ \A r \in {r1, r2} :
              /\ ~HasEntry(challenges[req[r].challengeId], req[r].userId)
              /\ challenges[req[r].challengeId].participants # << >>

\* C9: join, accept and complete for an id that resolves to no stored
\* challenge are answered 404 and change no challenge: join in the step
\* that receives it, accept and complete when they run on with the null
\* that findById returned.
C9_UnknownChallengeIs404 ==
    [][\A r \in Requests :
          /\ (Starts(r, "join") /\ ~Resolves(req'[r].challengeId))
                => (/\ req'[r].pc = "done"
                    /\ req'[r].status = 404
                    /\ challenges' = challenges)
          /\ (Continues(r) /\ req[r].doc = << >>)
                => (/\ req'[r].pc = "done"
                    /\ req'[r].status = 404
                    /\ challenges' = challenges)]_vars


(***************************************************************************)
(* The notifications of a create: claims C3, C4, C5, C6, C10.              *)
(***************************************************************************)
\* The pushes made in this step.
NewPushes == SubSeq(emitted', Len(emitted) + 1, Len(emitted'))

\* The step in which the create of slot r makes its live pushes.
Dispatches(r) ==
    req[r].op = "create" /\ req[r].pc = "dispatch" /\ req'[r].pc = "done"

\* The stored notifications of the create that saved challenge c.
RecordsOf(c) ==
    {i \in 1..Len(notifications) : notifications[i].data.challengeId = c}

PushesOf(id) == {j \in 1..Len(emitted) : emitted[j].payload._id = id}

\* C3: when a create dispatches, a recipient registered at that moment gets
\* exactly one new_notification push, on the registered socket, carrying
\* the _id of the recipient's stored record; a recipient not registered
\* gets no push, and the stored record exists.
C3_OnePushPerRegisteredRecipient ==
    [][\A r \in Requests : Dispatches(r) =>
          \A i \in 1..Len(req[r].batch) :
             LET n == req[r].batch[i]
                 mine == {j \in 1..Len(NewPushes) : NewPushes[j].payload.userId = n.userId}
             IN  /\ n._id \in 1..Len(notifications)
                 /\ notifications[n._id].userId = n.userId
                 /\ notifications[n._id].data.challengeId = req[r].challengeId
                 /\ IF n.userId \in DOMAIN userSockets
                    THEN /\ Cardinality(mine) = 1
                         /\ \A j \in mine :
                               /\ NewPushes[j].to = userSockets[n.userId]
                               /\ NewPushes[j].event = "new_notification"
                               /\ NewPushes[j].payload._id = n._id
                    ELSE mine = {}]_vars

\* A create has answered 200; one of its recipients was pushed to once, on
\* the socket registered for them, and another one has a record and no push.
C3_Witness ==
    \E r \in Requests :
        /\ Answered(r, "create", 200)
        /\ \E i, k \in RecordsOf(req[r].challengeId) :
              /\ Cardinality(PushesOf(i)) = 1
              /\ \A j \in PushesOf(i) :
                    /\ notifications[i].userId \in DOMAIN userSockets
                    /\ emitted[j].to = userSockets[notifications[i].userId]
              /\ PushesOf(k) = {}

\* C4: every push goes to the socket that the registry holds, at that
\* moment, for the recipient of the notification: a socket of that user,
\* still open, and none that was replaced or removed.
C4_NoStalePush ==
    [][\A j \in 1..Len(NewPushes) :
          LET userId == NewPushes[j].payload.userId
              to == NewPushes[j].to
          IN  /\ userId \in DOMAIN userSockets
              /\ userSockets[userId] = to
              /\ userId \in DOMAIN userSockets'
              /\ userSockets'[userId] = to
              /\ sockets[to].userId = userId
              /\ sockets[to].open]_vars

\* A push went to a later socket of a user whose earlier socket had been
\* replaced in the registry.
C4_Witness ==
    \E j \in 1..Len(emitted), h \in 1..Len(sockets) :
        /\ h < emitted[j].to
        /\ sockets[h].userId = emitted[j].payload.userId
        /\ sockets[emitted[j].to].userId = emitted[j].payload.userId

\* C5: no push before the record is stored.  Every push carries a stored
\* record; a create that has not yet inserted has made no push; a create
\* past its insert has one stored record per member, pushed or not.
C5_PersistBeforePush ==
    /\ \A j \in 1..Len(emitted) :
          /\ emitted[j].payload._id \in 1..Len(notifications)
          /\ notifications[emitted[j].payload._id] = emitted[j].payload
    /\ \A r \in Requests :
          /\ (req[r].op = "create" /\ req[r].pc \in {"findCommunity", "insertMany"})
                => \A j \in 1..Len(emitted) :
                      emitted[j].payload.data.challengeId # req[r].challengeId
          /\ (req[r].op = "create" /\ req[r].pc = "dispatch")
                => /\ \A i \in 1..Len(req[r].batch) :
                         /\ req[r].batch[i]._id \in 1..Len(notifications)
                         /\ notifications[req[r].batch[i]._id] = req[r].batch[i]
                   /\ \A j \in 1..Len(emitted) :
                         emitted[j].payload.data.challengeId # req[r].challengeId
          /\ Answered(r, "create", 200)
                => \A m \in 1..Len(Members(req[r].body.communityId)) :
                      \E i \in RecordsOf(req[r].challengeId) :
                         notifications[i].userId = Members(req[r].body.communityId)[m].userId

\* A create is about to dispatch to a registered member: its records are
\* stored and nothing has been pushed for them.
C5_Witness ==
    \E r \in Requests :
        /\ req[r].op = "create" /\ req[r].pc = "dispatch"
        /\ \E i \in 1..Len(req[r].batch) : req[r].batch[i].userId \in DOMAIN userSockets
        /\ \E i \in 1..Len(req[r].batch) : req[r].batch[i].userId \notin DOMAIN userSockets
        /\ \A i \in 1..Len(req[r].batch) :
              /\ notifications[req[r].batch[i]._id] = req[r].batch[i]
              /\ PushesOf(req[r].batch[i]._id) = {}

\* C6: a create answered 200 for a community of N members has stored
\* exactly N notifications, one per member, each of type challenge_invite,
\* unread, with the title, description and payload of the request.
C6_OneRecordPerMember ==
    \A r \in Requests : Answered(r, "create", 200) =>
        LET body == req[r].body
            members == Members(body.communityId)
            recs == RecordsOf(req[r].challengeId)
        IN  /\ Cardinality(recs) = Len(members)
            /\ \A m \in 1..Len(members) :
                  Cardinality({i \in recs : notifications[i].userId = members[m].userId}) = 1
            /\ \A i \in recs :
                  /\ notifications[i]._id = i
                  /\ notifications[i].type = "challenge_invite"
                  /\ notifications[i].read = FALSE
                  /\ notifications[i].title = << "New Challenge: ", body.name >>
                  /\ notifications[i].description =
                        << "You've been invited to join \"", body.name, "\" challenge" >>
                  /\ notifications[i].data =
                        [challengeId          |-> req[r].challengeId,
                         communityId          |-> body.communityId,
                         stakeAmount          |-> body.stake.amount,
                         challengeName        |-> body.name,
                         challengeDescription |-> body.description]
            /\ challenges[req[r].challengeId].communityId = body.communityId

C6_Witness ==
    \E r \in Requests :
        /\ Answered(r, "create", 200)
        /\ Len(Members(req[r].body.communityId)) = 2
        /\ Cardinality(RecordsOf(req[r].challengeId)) = 2

\* C10: a disconnect of a socket that is not the one registered for its
\* user leaves the registry as it is.
C10_StaleDisconnectKeepsRegistry ==
    [][\A h \in 1..Len(sockets) :
          (/\ sockets[h].open /\ ~sockets'[h].open
           /\ sockets[h].userId \in DOMAIN userSockets
           /\ userSockets[sockets[h].userId] # h)
          => userSockets' = userSockets]_vars

\* connect(u, h1), connect(u, h2), disconnect(h1): u is still registered
\* with h2, and a dispatch has pushed to h2.
C10_Witness ==
    \E h1, h2 \in 1..Len(sockets) :
        /\ h1 < h2
        /\ sockets[h1].userId = sockets[h2].userId
        /\ ~sockets[h1].open /\ sockets[h1].closedAt >= h2
        /\ sockets[h2].open
        /\ sockets[h2].userId \in DOMAIN userSockets
        /\ userSockets[sockets[h2].userId] = h2
        /\ \E j \in 1..Len(emitted) : emitted[j].to = h2


(***************************************************************************)
(* The failures of a create: claims C11, C12.                              *)
(***************************************************************************)
PushesFor(c) == {j \in 1..Len(emitted) : emitted[j].payload.data.challengeId = c}

\* The step in which the insert of the create of slot r is rejected: fewer
\* notifications reach the collection than the batch holds.
InsertRejected(r) ==
    /\ req[r].op = "create" /\ req[r].pc = "insertMany" /\ req'[r].pc # "insertMany"
    /\ Len(notifications') - Len(notifications) < Len(req[r].batch)

\* C11: a create whose insertMany is rejected answers 500 and pushes to
\* nobody, then or later: pushes exist only for a challenge whose whole
\* batch is stored.  The challenge it saved before stays stored.
C11_RejectedInsertIs500NoPush ==
    /\ [][\A r \in Requests : InsertRejected(r) =>
             /\ req'[r].pc = "done"
             /\ req'[r].status = 500
             /\ emitted' = emitted
             /\ PushesFor(req[r].challengeId) = {}
             /\ challenges' = challenges
             /\ Resolves(req[r].challengeId)
             /\ challenges[req[r].challengeId] = req[r].doc[1]]_vars
    /\ [](\A j \in 1..Len(emitted) :
             LET c == emitted[j].payload.data.challengeId
             IN  /\ Resolves(c)
                 /\ challenges[c].communityId \in CommunityIds
                 /\ Cardinality(RecordsOf(c)) = Len(Members(challenges[c].communityId)))

\* The create for cm1 was answered 500 after one of its two notifications
\* was written, for a user who is connected; nothing was pushed and the
\* challenge is stored.
C11_Witness ==
    \E r \in Requests :
        /\ Answered(r, "create", 500)
        /\ req[r].body.communityId = "cm1"
        /\ Resolves(req[r].challengeId)
        /\ challenges[req[r].challengeId].communityId = "cm1"
        /\ \A q \in Requests \ {r} :
              ~(req[q].op = "create" /\ req[q].challengeId = req[r].challengeId)
        /\ Cardinality(RecordsOf(req[r].challengeId)) = 1
        /\ \A i \in RecordsOf(req[r].challengeId) :
              notifications[i].userId \in DOMAIN userSockets
        /\ PushesFor(req[r].challengeId) = {}

\* The step in which the create of slot r learns that its community does
\* not resolve.
CommunityMissing(r) ==
    /\ req[r].op = "create" /\ req[r].pc = "findCommunity" /\ req'[r].pc # "findCommunity"
    /\ req[r].body.communityId \notin CommunityIds

\* C12: a create for a community that does not resolve answers 404, stores
\* no notification and pushes to nobody, then or later; the challenge it
\* saved before the lookup stays stored, with no notification.
C12_MissingCommunityIs404 ==
    /\ [][\A r \in Requests : CommunityMissing(r) =>
             /\ req'[r].pc = "done"
             /\ req'[r].status = 404
             /\ notifications' = notifications
             /\ emitted' = emitted
             /\ challenges' = challenges
             /\ Resolves(req[r].challengeId)
             /\ challenges[req[r].challengeId] = req[r].doc[1]]_vars
    /\ [](\A c \in 1..Len(challenges) :
             challenges[c].communityId \notin CommunityIds
                => RecordsOf(c) = {} /\ PushesFor(c) = {})

\* The create for cm9 was answered 404 while somebody was connected: its
\* challenge is stored, with no notification and no push.
C12_Witness ==
    \E r \in Requests :
        /\ Answered(r, "create", 404)
        /\ req[r].body.communityId = "cm9"
        /\ Resolves(req[r].challengeId)
        /\ challenges[req[r].challengeId].communityId = "cm9"
        /\ challenges[req[r].challengeId].participants = << >>
        /\ RecordsOf(req[r].challengeId) = {}
        /\ PushesFor(req[r].challengeId) = {}
        /\ DOMAIN userSockets # {}


(***************************************************************************)
(* What accept and complete change: claim C13.                             *)
(***************************************************************************)
\* The position of the first entry of the user in a roster that has one.
FirstEntry(roster, userId) ==
    CHOOSE i \in 1..Len(roster) :
        /\ roster[i].userId = userId
        /\ \A j \in 1..(i - 1) : roster[j].userId # userId

\* The step in which the accept or complete of slot r answers 200.
UpdateAnswers200(r) ==
    /\ req[r].op \in {"accept", "complete"} /\ req[r].pc = "save"
    /\ req'[r].pc = "done" /\ req'[r].status = 200

\* C13: an accept that answers 200 leaves the stored challenges as they
\* were, except that the entry of its user has accepted and stakeSubmitted
\* true; a complete that answers 200 leaves them as they were, except that
\* the entry of its user has completed true and completedAt the time the
\* handler read, which is the clock when it ran line 239.  complete asks
\* nothing of accepted.
C13_OnlyOwnEntryChanges ==
    [][\A r \in Requests :
          /\ (Continues(r) /\ req[r].op = "complete" /\ req'[r].pc = "save")
                => req'[r].batch = << clock >>
          /\ UpdateAnswers200(r) =>
                LET c == req[r].challengeId
                    old == challenges[c].participants
                    new == challenges'[c].participants
                    i == FirstEntry(old, req[r].userId)
                IN  /\ HasEntry(challenges[c], req[r].userId)
                    /\ challenges' = [challenges EXCEPT ![c].participants = new]
                    /\ Len(new) = Len(old)
                    /\ \A j \in 1..Len(old) : j # i => new[j] = old[j]
                    /\ req[r].op = "accept"
                          => new[i] = [old[i] EXCEPT !.accepted = TRUE,
                                                     !.stakeSubmitted = TRUE]
                    /\ req[r].op = "complete"
                          => /\ new[i] = [old[i] EXCEPT !.completed = TRUE,
                                                        !.completedAt = req[r].batch]
                             /\ req[r].batch[1] <= clock]_vars

(***************************************************************************)
(* The roster only grows and flags only rise: claim C14.                   *)
(***************************************************************************)
\* Entry b is entry a with no flag lowered and no completion time cleared.
NotLowered(a, b) ==
    /\ b.userId = a.userId
    /\ a.accepted => b.accepted
    /\ a.stakeSubmitted => b.stakeSubmitted
    /\ a.completed => b.completed
    /\ a.completedAt # << >> => b.completedAt # << >>

\* The step in which the join of slot r for challenge c answers 200.
JoinAnswers200(r, c) ==
    /\ req[r].op = "join" /\ req[r].pc = "save" /\ req[r].challengeId = c
    /\ req'[r].pc = "done" /\ req'[r].status = 200

\* C14: in every step, every stored challenge stays stored and a challenge
\* that appears has an empty roster; a roster keeps every entry it has, at
\* its position and for its user, with no flag going from true to false; an
\* entry appears only at the end, one per step, in the step in which a join
\* of its user answers 200, and with all flags false.
C14_RosterMonotonic ==
    [][/\ Len(challenges') >= Len(challenges)
       /\ \A c \in 1..Len(challenges') :
            IF c > Len(challenges)
            THEN challenges'[c].participants = << >>
            ELSE LET old == challenges[c].participants
                     new == challenges'[c].participants
                 IN  /\ Len(new) \in {Len(old), Len(old) + 1}
                     /\ \A j \in 1..Len(old) : NotLowered(old[j], new[j])
                     /\ Len(new) = Len(old) + 1 =>
                          \E r \in Requests :
                              /\ JoinAnswers200(r, c)
                              /\ new[Len(new)] = [userId         |-> req[r].userId,
                                                  accepted       |-> FALSE,
                                                  stakeSubmitted |-> FALSE,
                                                  completed      |-> FALSE,
                                                  completedAt    |-> << >>]]_vars

\* A join and an accept of another user read the same version of the
\* challenge and both answered 200, so the join saved a copy read before
\* the accept was stored: the roster has the accepted entry and the new one.
C14_Witness ==
    \E r1, r2 \in Requests :
        /\ Answered(r1, "accept", 200) /\ Answered(r2, "join", 200)
        /\ req[r1].challengeId = req[r2].challengeId
        /\ req[r1].userId # req[r2].userId
        /\ req[r1].readV = req[r2].readV
        /\ LET roster == challenges[req[r1].challengeId].participants
           IN  /\ Len(roster) = 2
               /\ roster[1].userId = req[r1].userId
               /\ roster[1].accepted /\ roster[1].stakeSubmitted
               /\ roster[2].userId = req[r2].userId
               /\ ~roster[2].accepted

=============================================================================
